---- MODULE Spec2Model ----
(***************************************************************************)
(* A model of pgdb's migration engine (src/migrations.go, src/postgres.go, *)
(* src/sort.go): the db_version tracking table, the migration directory,   *)
(* and runner processes that Dial, read the current migration, diff the    *)
(* directory against it and run the pending migrations.                    *)
(*                                                                         *)
(* Every database transaction of the code (db.exec: BEGIN SERIALIZABLE,    *)
(* callback, COMMIT or ROLLBACK) is one atomic step; RunMigrations is      *)
(* therefore a sequence of steps, one per transaction, so that other       *)
(* runners and a crash of the process can fall between them.  ExecFile is  *)
(* two steps (statements run inside the open transaction, then commit or   *)
(* rollback) so that a crash can fall inside a migration's SQL.            *)
(*                                                                         *)
(* Not modelled: last_run (a timestamp nothing reads), logging, the        *)
(* connection pool, and connection-level failures of Dial (a database that *)
(* refuses Dial's CREATE TABLE, SELECT or INSERT).  Failures of the three  *)
(* steps of a migration are modelled: each step may fail.                  *)
(***************************************************************************)
EXTENDS Integers, Sequences, FiniteSets, TLC

(***************************************************************************)
(* Bounds of the model.                                                    *)
(***************************************************************************)
\* Width in bits of the model's int64/uint64 (the code's is 64; TLC's integers
\* have 32 bits, so the width is scaled down and every conversion keeps it).
IntBits == 4
\* How many changes (file added, file edited) the directory sees in one behaviour.
MaxFsEdits == 1

(***************************************************************************)
(* Strings the code inspects character by character (file names) are       *)
(* sequences of one-character strings.                                     *)
(***************************************************************************)
Digits == <<"0", "1", "2", "3", "4", "5", "6", "7", "8", "9">>

IsDigit(c) == \E i \in 1..10 : Digits[i] = c

DigitVal(c) == (CHOOSE i \in 1..10 : Digits[i] = c) - 1

\* Byte value of the characters that occur in the model's file names.
Code(c) ==
    CASE c = "-" -> 45
      [] c = "." -> 46
      [] IsDigit(c) -> 48 + DigitVal(c)
      [] c = "b" -> 98
      [] c = "l" -> 108
      [] c = "q" -> 113
      [] c = "s" -> 115
      [] c = "t" -> 116
      [] c = "u" -> 117
      [] c = "x" -> 120

\* Go's string comparison a < b (bytewise), which orders a directory's entries.
RECURSIVE StrLess(_, _)
StrLess(a, b) ==
    IF b = <<>> THEN FALSE
    ELSE IF a = <<>> THEN TRUE
    ELSE IF Code(Head(a)) # Code(Head(b)) THEN Code(Head(a)) < Code(Head(b))
    ELSE StrLess(Tail(a), Tail(b))

HasPrefix(s, p) == Len(s) >= Len(p) /\ SubSeq(s, 1, Len(p)) = p

DotSql == <<".", "s", "q", "l">>

\* strings.Replace(s, ".sql", "", -1): every occurrence removed, left to right.
RECURSIVE StripSql(_)
StripSql(s) ==
    IF s = <<>> THEN <<>>
    ELSE IF HasPrefix(s, DotSql) THEN StripSql(SubSeq(s, Len(DotSql) + 1, Len(s)))
    ELSE <<Head(s)>> \o StripSql(Tail(s))

\* filepath.Ext: the suffix of the name starting at its last dot, "" if none.
RECURSIVE Ext(_)
Ext(s) ==
    IF s = <<>> THEN <<>>
    ELSE IF s[Len(s)] = "." THEN <<".">>
    ELSE LET e == Ext(SubSeq(s, 1, Len(s) - 1))
         IN  IF e = <<>> THEN <<>> ELSE e \o <<s[Len(s)]>>

TwoPow(n) == 2 ^ n

MaxInt64 == TwoPow(IntBits - 1) - 1

\* Value of a string of decimal digits, saturating just above the int64 range
\* (strconv reports a range error there, whatever the digits that follow).
RECURSIVE DigitsVal(_, _)
DigitsVal(s, acc) ==
    IF s = <<>> THEN acc
    ELSE IF acc > MaxInt64 + 1 THEN acc
    ELSE DigitsVal(Tail(s), acc * 10 + DigitVal(Head(s)))

\* strconv.ParseInt(s, 10, 64): an optional sign, then one or more decimal
\* digits, within the range of int64.
ParseInt(s) ==
    LET signed == s # <<>> /\ Head(s) \in {"+", "-"}
        neg    == s # <<>> /\ Head(s) = "-"
        body   == IF signed THEN Tail(s) ELSE s
        syntax == body = <<>> \/ \E i \in 1..Len(body) : ~IsDigit(body[i])
        n      == DigitsVal(body, 0)
    IN  IF syntax THEN [ok |-> FALSE, val |-> 0]
        ELSE IF neg /\ n > MaxInt64 + 1 THEN [ok |-> FALSE, val |-> 0]
        ELSE IF ~neg /\ n > MaxInt64 THEN [ok |-> FALSE, val |-> 0]
        ELSE [ok |-> TRUE, val |-> IF neg THEN 0 - n ELSE n]

\* The conversion uint64(version) of an int64.
Uint64(v) == v % TwoPow(IntBits)

\* fmt.Sprintf("%x", md5.Sum(bytes)): contents are tokens and the digest is
\* taken to be collision-free on them.
Md5Hex(content) ==
    CASE content = "A" -> "hA"
      [] content = "B" -> "hB"

(***************************************************************************)
(* The migration directory.  A file is named by the subdirectory it is in  *)
(* (empty when it is directly inside the migration directory) and its file *)
(* name; the directory maps each file it holds to the file's content.      *)
(***************************************************************************)
Path(sub, name) == [dir |-> sub, name |-> name]

\* The empty string as a path (the bootstrap row's file).
NoFile == Path(<<>>, <<>>)

P1 == Path(<<>>, <<"1">> \o DotSql)

P2 == Path(<<>>, <<"2">> \o DotSql)

P3 == Path(<<>>, <<"3">> \o DotSql)

\* A second file whose name parses to 1.
P01 == Path(<<>>, <<"0", "1">> \o DotSql)

\* A .sql file whose name is no number.
PBad == Path(<<>>, <<"1", "x">> \o DotSql)

\* A file Discovery does not select.
PTxt == Path(<<>>, <<"1", ".", "t", "x", "t">>)

FileUniverse == {P1, P2, P3, P01, PBad, PTxt}

\* A .sql file inside a subdirectory of the migration directory.
PSub3 == Path(<<"s", "u", "b">>, <<"3">> \o DotSql)

\* A .sql file whose stem is a negative number.
PNeg == Path(<<>>, <<"-", "1">> \o DotSql)

\* Every file of the model.
AllFiles == FileUniverse \cup {PSub3, PNeg}

Dir(paths) == [p \in paths |-> "A"]

\* The directories a behaviour of Spec starts from.
InitDirs == {Dir({P1, P2, P3}), Dir({P1, P2}), Dir({P01, P1, P2})}

\* The directories a behaviour of SpecDisc starts from.
DiscDirs == {Dir({P1, P2, PSub3}), Dir({PNeg, P1, P2}), Dir({PTxt, P1, PSub3})}

(***************************************************************************)
(* Records.                                                                *)
(***************************************************************************)
\* A row of db_version (id is always '1'; last_run is not modelled).
Row(v, h, f, c) == [version |-> v, hash |-> h, file |-> f, complete |-> c]

\* The row Dial inserts.
BootstrapRow == Row(0, "", NoFile, TRUE)

\* The zero value of Migration, what GetCurrentMigration returns with an error.
ZeroMigration == Row(0, "", NoFile, FALSE)

\* A Migration discovered on disk.
Migration(f, h, v, c) == [File |-> f, Hash |-> h, Version |-> v, Complete |-> c]

MigrationStatus(a, f, s, l) == [Applied |-> a, Failed |-> f, Skipped |-> s, Latest |-> l]

Runners == {1, 2}

\* The program counters at which a runner is inside RunMigrations.
RunPcs == {"loop", "exec", "intx", "complete"}

VARIABLES
    rows,      \* the table db_version: a sequence of rows
    fs,        \* the migration directory: file -> content
    executed,  \* file -> how many times its SQL was committed to the database
    db,        \* the statements committed to the database by ExecFile, in order
    active,    \* the runner processes that exist
    pc,        \* runner -> where the process is
    cur,       \* runner -> the Migration its last GetCurrentMigration returned
    migs,      \* runner -> the migrations DiffMigrations returned / RunMigrations sorts
    derr,      \* runner -> the error DiffMigrations returned
    idx,       \* runner -> position of RunMigrations' loop in migs
    status,    \* runner -> the MigrationStatus of the current invocation
    err,       \* runner -> the error RunMigrations returned
    trace,     \* runner -> history: the steps the current invocation performed
    streak,    \* runner -> history: what preceded with the directory unchanged
    repeat,    \* runner -> history: how the current diff/run follows the previous run
    crashedAt, \* runner -> history: where the process last crashed
    notFound,  \* history: how many times GetCurrentMigration returned sql.ErrNoRows
    inserts,   \* history: how many rows Dial inserted
    edits      \* history: how many times the directory was changed

vars == <<rows, fs, executed, db, active, pc, cur, migs, derr, idx, status, err,
          trace, streak, repeat, crashedAt, notFound, inserts, edits>>

(***************************************************************************)
(* Pure parts of the code.                                                 *)
(***************************************************************************)
\* GetCurrentMigration: SELECT * FROM db_version WHERE id = '1' LIMIT 1 in a
\* read transaction.  Row i is the one the database picks when there are
\* several (no ORDER BY); with no row the error is sql.ErrNoRows.
GetCurrentMigration(rs, i) ==
    IF rs = <<>> THEN [m |-> ZeroMigration, err |-> "norows"]
    ELSE [m |-> rs[i], err |-> "none"]

\* The rows the database may pick for LIMIT 1.
Picks(rs) == IF rs = <<>> THEN {0} ELSE DOMAIN rs

\* filepath.Walk visits the entries of a directory in lexical order of their
\* names and descends into a subdirectory when it meets it.
WalkLess(p, q) ==
    LET a == IF p.dir = <<>> THEN p.name ELSE p.dir
        b == IF q.dir = <<>> THEN q.name ELSE q.dir
    IN  IF a # b THEN StrLess(a, b) ELSE StrLess(p.name, q.name)

RECURSIVE WalkOrder(_)
WalkOrder(paths) ==
    IF paths = {} THEN <<>>
    ELSE LET first == CHOOSE p \in paths : \A q \in paths \ {p} : WalkLess(p, q)
         IN  <<first>> \o WalkOrder(paths \ {first})

\* Mutant: the persisted version itself counts as pending.
IsCompleteStrict(version, currentMigration) == version < currentMigration.version

\* Complete: uint64(version) <= currentMigration.Version.
IsComplete(version, currentMigration) == version <= currentMigration.version

\* Mutant: the check is commented out.
DriftedNever(migration, currentMigration) == FALSE

\* The check of the candidate at the persisted version against the persisted hash.
Drifted(migration, currentMigration) ==
    /\ migration.Version = currentMigration.version
    /\ migration.Hash # currentMigration.hash

\* Mutant: DiffMigrations does not look at complete.
UnresolvedNever(currentMigration) == FALSE

\* The persisted migration did not finish.
Unresolved(currentMigration) == ~currentMigration.complete

\* The callback DiffMigrations gives filepath.Walk, on the file order[i], with
\* the migrations appended so far; an error ends the walk.
RECURSIVE WalkFiles(_, _, _, _, _)
WalkFiles(currentMigration, d, order, i, migrations) ==
    IF i > Len(order) THEN [migs |-> migrations, err |-> "none"]
    ELSE LET path    == order[i]
             parsed  == ParseInt(StripSql(path.name))
             version == parsed.val
             migration == Migration(path, Md5Hex(d[path]), Uint64(version),
                                    IsComplete(Uint64(version), currentMigration))
         IN  IF Ext(path.name) # DotSql
               THEN WalkFiles(currentMigration, d, order, i + 1, migrations)
             ELSE IF ~parsed.ok
               THEN [migs |-> migrations, err |-> "parse"]
             ELSE IF Drifted(migration, currentMigration)
               THEN [migs |-> migrations, err |-> "drift"]
             ELSE WalkFiles(currentMigration, d, order, i + 1,
                            Append(migrations, migration))

\* DiffMigrations, given what its GetCurrentMigration returned and the directory.
DiffMigrations(got, d) ==
    IF got.err # "none" THEN [migs |-> <<>>, err |-> got.err]
    ELSE IF Unresolved(got.m) THEN [migs |-> <<>>, err |-> "unresolved"]
    ELSE WalkFiles(got.m, d, WalkOrder(DOMAIN d), 1, <<>>)

\* Mutant: the comparison is inverted and the sort is descending.
LessReversed(a, b) == a.Version > b.Version

\* MigrationSet.Less.
Less(a, b) == a.Version < b.Version

\* sort.Sort(MigrationSet(migrations)): some reordering of the slice in which
\* no element is Less than an earlier one (the sort is not stable).
SortResults(s) ==
    LET n == Len(s)
    IN  { t \in { [i \in 1..n |-> s[f[i]]] : f \in Permutations(1..n) } :
            \A i, j \in 1..n : i < j => ~Less(t[j], t[i]) }

\* string(bytes) of a file: the text behind each content token.  "A" is two
\* statements; "B" is one statement with its closing semicolon.
FileText(content) ==
    CASE content = "A" -> <<"a", ";", "b">>
      [] content = "B" -> <<"c", ";">>

\* strings.Split(s, sep) for a one-character separator.
RECURSIVE Split(_, _)
Split(s, sep) ==
    IF \A i \in 1..Len(s) : s[i] # sep THEN <<s>>
    ELSE LET k == CHOOSE i \in 1..Len(s) :
                      s[i] = sep /\ \A j \in 1..(i - 1) : s[j] # sep
         IN  <<SubSeq(s, 1, k - 1)>> \o Split(SubSeq(s, k + 1, Len(s)), sep)

\* A statement executed on the database: the block and the file it came from.
Statement(file, block) == [file |-> file, sql |-> block]

\* The callback ExecFile hands to Update: tx.Exec of each block in order,
\* returning at the first error.  Block failAt is the one that fails; with
\* failAt = 0 none does.  tx is what the open transaction has executed.
ExecBlocks(file, blocks, failAt) ==
    LET done == IF failAt = 0 THEN Len(blocks) ELSE failAt - 1
    IN  [tx |-> [i \in 1..done |-> Statement(file, blocks[i])], err |-> failAt # 0]

\* Mutant: the statements ran outside the transaction and stay.
RollbackKeeps(database, tx) == database \o tx

\* tx.Rollback(): nothing the transaction executed remains.
Rollback(database, tx) == database

\* tx.Commit(): what the transaction executed takes effect, or nothing does.
Commit(database, tx, ok) == IF ok THEN database \o tx ELSE Rollback(database, tx)

\* DB.exec: the callback's error rolls the transaction back and is returned;
\* otherwise the result is that of the commit.
exec(database, callback, commitOk) ==
    IF callback.err THEN [db |-> Rollback(database, callback.tx), err |-> TRUE]
    ELSE [db |-> Commit(database, callback.tx, commitOk), err |-> ~commitOk]

\* Mutant: the opening UPDATE leaves complete as it is.
BeginStepKeepsComplete(rs, migration) ==
    [i \in DOMAIN rs |->
        Row(migration.Version, migration.Hash, migration.File, rs[i].complete)]

\* UPDATE db_version SET version, hash, file, last_run, complete = false WHERE id = '1'.
BeginStep(rs, migration) ==
    [i \in DOMAIN rs |->
        Row(migration.Version, migration.Hash, migration.File, FALSE)]

\* The column version is a bigint: a version above the int64 range cannot be
\* written.
Storable(migration) == migration.Version <= MaxInt64

\* UPDATE db_version SET complete = true WHERE id = '1' AND version = $2.
CompleteStep(rs, version) ==
    [i \in DOMAIN rs |->
        IF rs[i].version = version THEN [rs[i] EXCEPT !.complete = TRUE] ELSE rs[i]]

\* How many rows that UPDATE changes (the code does not look at it).
RowsAffected(rs, version) == Cardinality({i \in DOMAIN rs : rs[i].version = version})

\* Mutant: Dial inserts the bootstrap row without looking at the error.
DialInsertsAlways(e) == TRUE

\* Dial inserts the bootstrap row when GetCurrentMigration's error is sql.ErrNoRows.
DialInserts(e) == e = "norows"

\* Mutant: nothing is skipped, every migration passed in is applied.
SkipsNothing(migration) == FALSE

\* RunMigrations skips a migration that is already complete.
Skips(migration) == migration.Complete

\* A step the history of an invocation records.
Step(op, i, ok, n) == [op |-> op, i |-> i, ok |-> ok, n |-> n]

NoStatus == MigrationStatus(0, 0, 0, 0)

(***************************************************************************)
(* Initial states.                                                         *)
(***************************************************************************)
InitWith(dirs, procs) ==
    /\ rows = <<>>
    /\ fs \in dirs
    /\ executed = [p \in AllFiles |-> 0]
    /\ db = <<>>
    /\ active = procs
    /\ pc = [r \in Runners |-> "new"]
    /\ cur = [r \in Runners |-> ZeroMigration]
    /\ migs = [r \in Runners |-> <<>>]
    /\ derr = [r \in Runners |-> "none"]
    /\ idx = [r \in Runners |-> 0]
    /\ status = [r \in Runners |-> NoStatus]
    /\ err = [r \in Runners |-> "none"]
    /\ trace = [r \in Runners |-> <<>>]
    /\ streak = [r \in Runners |-> "none"]
    /\ repeat = [r \in Runners |-> "no"]
    /\ crashedAt = [r \in Runners |-> "none"]
    /\ notFound = 0
    /\ inserts = 0
    /\ edits = 0

\* A fresh database and one runner process.
Init == InitWith(InitDirs, {1})

(***************************************************************************)
(* Dial (postgres.go).  CREATE TABLE IF NOT EXISTS changes nothing the     *)
(* model holds; then GetCurrentMigration, then the INSERT as a statement   *)
(* of its own.                                                             *)
(***************************************************************************)
Dial(r) ==
    /\ r \in active
    /\ pc[r] \in {"new", "idle", "returned"}
    /\ \E i \in Picks(rows) :
         LET got == GetCurrentMigration(rows, i)
         IN  /\ pc' = [pc EXCEPT ![r] = IF DialInserts(got.err) THEN "dialing" ELSE "idle"]
             /\ notFound' = IF got.err = "norows" THEN notFound + 1 ELSE notFound
    /\ cur' = [cur EXCEPT ![r] = ZeroMigration]
    /\ migs' = [migs EXCEPT ![r] = <<>>]
    /\ derr' = [derr EXCEPT ![r] = "none"]
    /\ idx' = [idx EXCEPT ![r] = 0]
    /\ status' = [status EXCEPT ![r] = NoStatus]
    /\ err' = [err EXCEPT ![r] = "none"]
    /\ trace' = [trace EXCEPT ![r] = <<>>]
    /\ crashedAt' = [crashedAt EXCEPT ![r] = "none"]
    /\ UNCHANGED <<rows, fs, executed, db, active, streak, repeat, inserts, edits>>

DialInsert(r) ==
    /\ r \in active
    /\ pc[r] = "dialing"
    /\ rows' = Append(rows, BootstrapRow)
    /\ inserts' = inserts + 1
    /\ pc' = [pc EXCEPT ![r] = "idle"]
    /\ UNCHANGED <<fs, executed, db, active, cur, migs, derr, idx, status, err, trace,
                   streak, repeat, crashedAt, notFound, edits>>

(***************************************************************************)
(* The caller reads the current migration, which it will pass to           *)
(* RunMigrations (migrations.go, GetCurrentMigration).                     *)
(***************************************************************************)
GetCurrent(r) ==
    /\ r \in active
    /\ pc[r] \in {"idle", "returned"}
    /\ \E i \in Picks(rows) :
         LET got == GetCurrentMigration(rows, i)
         IN  /\ cur' = [cur EXCEPT ![r] = got.m]
             /\ pc' = [pc EXCEPT ![r] = IF got.err = "none" THEN "got" ELSE "idle"]
             /\ notFound' = IF got.err = "norows" THEN notFound + 1 ELSE notFound
    /\ migs' = [migs EXCEPT ![r] = <<>>]
    /\ derr' = [derr EXCEPT ![r] = "none"]
    /\ idx' = [idx EXCEPT ![r] = 0]
    /\ status' = [status EXCEPT ![r] = NoStatus]
    /\ err' = [err EXCEPT ![r] = "none"]
    /\ trace' = [trace EXCEPT ![r] = <<>>]
    /\ UNCHANGED <<rows, fs, executed, db, active, streak, repeat, crashedAt, inserts,
                   edits>>

(***************************************************************************)
(* DiffMigrations (migrations.go): its own read of the row, then the walk  *)
(* of the directory.                                                       *)
(***************************************************************************)
Diff(r) ==
    /\ r \in active
    /\ pc[r] = "got"
    /\ \E i \in Picks(rows) :
         LET got == GetCurrentMigration(rows, i)
             res == DiffMigrations(got, fs)
         IN  /\ migs' = [migs EXCEPT ![r] = res.migs]
             /\ derr' = [derr EXCEPT ![r] = res.err]
             /\ pc' = [pc EXCEPT ![r] = IF res.err = "none" THEN "diffed" ELSE "idle"]
             /\ notFound' = IF got.err = "norows" THEN notFound + 1 ELSE notFound
             /\ streak' = [streak EXCEPT ![r] = IF res.err = "none" THEN "diffed" ELSE "none"]
             /\ repeat' = [repeat EXCEPT ![r] =
                              IF res.err # "none" THEN "no"
                              ELSE IF streak[r] = "ran" THEN "afterok"
                              ELSE IF streak[r] = "ranerr" THEN "aftererr"
                              ELSE "no"]
    /\ UNCHANGED <<rows, fs, executed, db, active, cur, idx, status, err, trace, crashedAt,
                   inserts, edits>>

(***************************************************************************)
(* RunMigrations (migrations.go), one step per transaction.                *)
(***************************************************************************)
\* Mutant: a failed step is logged and the loop goes on.
AfterFailureGoesOn == "loop"

\* Where a failed step leaves the invocation: return migrationStatus, err.
AfterFailure == "returned"

\* Mutant: a skipped migration is not counted.
CountSkippedForgotten(st) == st

CountSkipped(st) == [st EXCEPT !.Skipped = @ + 1]

\* Mutant: the failure is not counted.
CountFailedForgotten(st) == st

CountFailed(st) == [st EXCEPT !.Failed = @ + 1]

\* Mutant: Latest is not advanced.
CountAppliedKeepsLatest(st, migration) == [st EXCEPT !.Applied = @ + 1]

CountApplied(st, migration) ==
    [st EXCEPT !.Applied = @ + 1, !.Latest = migration.Version]

\* The migration the loop is at.
Current(r) == migs[r][idx[r]]

InLoop(r) == r \in active /\ pc[r] = "loop" /\ idx[r] <= Len(migs[r])

\* sort.Sort and the fresh MigrationStatus; the caller passes the migration it
\* read and the migrations DiffMigrations returned.
RunStart(r) ==
    /\ r \in active
    /\ pc[r] = "diffed"
    /\ \E sorted \in SortResults(migs[r]) : migs' = [migs EXCEPT ![r] = sorted]
    /\ status' = [status EXCEPT ![r] = MigrationStatus(0, 0, 0, cur[r].version)]
    /\ idx' = [idx EXCEPT ![r] = 1]
    /\ err' = [err EXCEPT ![r] = "none"]
    /\ trace' = [trace EXCEPT ![r] = <<>>]
    /\ pc' = [pc EXCEPT ![r] = "loop"]
    /\ UNCHANGED <<rows, fs, executed, db, active, cur, derr, streak, repeat, crashedAt,
                   notFound, inserts, edits>>

\* A migration that is already complete.
RunSkip(r) ==
    /\ InLoop(r)
    /\ Skips(Current(r))
    /\ status' = [status EXCEPT ![r] = CountSkipped(@)]
    /\ idx' = [idx EXCEPT ![r] = @ + 1]
    /\ UNCHANGED <<rows, fs, executed, db, active, pc, cur, migs, derr, err, trace, streak,
                   repeat, crashedAt, notFound, inserts, edits>>

\* A step failed: Failed is counted and the invocation ends (or, were the
\* code to go on, the loop moves to the next migration).
Fail(r, op, e) ==
    /\ status' = [status EXCEPT ![r] = CountFailed(@)]
    /\ err' = [err EXCEPT ![r] = e]
    /\ trace' = [trace EXCEPT ![r] = Append(@, Step(op, idx[r], FALSE, 0))]
    /\ pc' = [pc EXCEPT ![r] = AfterFailure]
    /\ idx' = [idx EXCEPT ![r] = IF AfterFailure = "returned" THEN @ ELSE @ + 1]
    /\ streak' = [streak EXCEPT ![r] =
                     IF AfterFailure # "returned" THEN @
                     ELSE IF @ = "diffed" THEN "ranerr" ELSE "none"]
    /\ UNCHANGED <<rows, fs, executed, active, cur, migs, derr, repeat, crashedAt,
                   notFound, inserts, edits>>

\* The first transaction of a pending migration commits.
BeginStepOk(r) ==
    /\ InLoop(r)
    /\ ~Skips(Current(r))
    /\ Storable(Current(r))
    /\ rows' = BeginStep(rows, Current(r))
    /\ trace' = [trace EXCEPT ![r] = Append(@, Step("begin", idx[r], TRUE, Len(rows)))]
    /\ pc' = [pc EXCEPT ![r] = "exec"]
    /\ UNCHANGED <<fs, executed, db, active, cur, migs, derr, idx, status, err, streak,
                   repeat, crashedAt, notFound, inserts, edits>>

\* It fails (the statement or the commit): the row is as it was.
BeginStepFail(r) ==
    /\ InLoop(r)
    /\ ~Skips(Current(r))
    /\ Fail(r, "begin", "begin")
    /\ db' = db

\* ExecFile reads the file and runs its statements inside a transaction.
ExecFileStart(r) ==
    /\ r \in active
    /\ pc[r] = "exec"
    /\ pc' = [pc EXCEPT ![r] = "intx"]
    /\ UNCHANGED <<rows, fs, executed, db, active, cur, migs, derr, idx, status, err, trace,
                   streak, repeat, crashedAt, notFound, inserts, edits>>

\* The callback returned nil and tx.Commit succeeded: the file's statements
\* have taken effect.
ExecFileCommit(r) ==
    /\ r \in active
    /\ pc[r] = "intx"
    /\ LET blocks == Split(FileText(fs[Current(r).File]), ";")
           res    == exec(db, ExecBlocks(Current(r).File, blocks, 0), TRUE)
       IN  /\ ~res.err
           /\ db' = res.db
    /\ executed' = [executed EXCEPT ![Current(r).File] = @ + 1]
    /\ trace' = [trace EXCEPT ![r] = Append(@, Step("sql", idx[r], TRUE, 0))]
    /\ pc' = [pc EXCEPT ![r] = "complete"]
    /\ UNCHANGED <<rows, fs, active, cur, migs, derr, idx, status, err, streak, repeat,
                   crashedAt, notFound, inserts, edits>>

\* Block failAt fails in tx.Exec, or (failAt = 0) every block succeeds and
\* tx.Commit fails: ExecFile returns the error.
ExecFileFail(r) ==
    /\ r \in active
    /\ pc[r] = "intx"
    /\ LET blocks == Split(FileText(fs[Current(r).File]), ";")
       IN  \E failAt \in 0..Len(blocks) :
             LET res == exec(db, ExecBlocks(Current(r).File, blocks, failAt), FALSE)
             IN  /\ res.err
                 /\ db' = res.db
    /\ Fail(r, "sql", "sql")

\* The closing transaction commits, whatever number of rows it changed.
CompleteStepOk(r) ==
    /\ r \in active
    /\ pc[r] = "complete"
    /\ rows' = CompleteStep(rows, Current(r).Version)
    /\ status' = [status EXCEPT ![r] = CountApplied(@, Current(r))]
    /\ trace' = [trace EXCEPT ![r] =
                    Append(@, Step("complete", idx[r], TRUE,
                                   RowsAffected(rows, Current(r).Version)))]
    /\ idx' = [idx EXCEPT ![r] = @ + 1]
    /\ pc' = [pc EXCEPT ![r] = "loop"]
    /\ UNCHANGED <<fs, executed, db, active, cur, migs, derr, err, streak, repeat,
                   crashedAt, notFound, inserts, edits>>

CompleteStepFail(r) ==
    /\ r \in active
    /\ pc[r] = "complete"
    /\ Fail(r, "complete", "complete")
    /\ db' = db

\* The loop is over: return migrationStatus, nil.
RunReturn(r) ==
    /\ r \in active
    /\ pc[r] = "loop"
    /\ idx[r] > Len(migs[r])
    /\ pc' = [pc EXCEPT ![r] = "returned"]
    /\ streak' = [streak EXCEPT ![r] =
                     IF err[r] = "none" /\ @ = "diffed" THEN "ran" ELSE "none"]
    /\ UNCHANGED <<rows, fs, executed, db, active, cur, migs, derr, idx, status, err, trace,
                   repeat, crashedAt, notFound, inserts, edits>>

(***************************************************************************)
(* The environment.                                                        *)
(***************************************************************************)
\* The runner's process dies inside RunMigrations; an open transaction is
\* rolled back by the database, the process's memory is lost.
Crash(r) ==
    /\ r \in active
    /\ pc[r] \in RunPcs
    /\ crashedAt' = [crashedAt EXCEPT ![r] = pc[r]]
    /\ pc' = [pc EXCEPT ![r] = "new"]
    /\ cur' = [cur EXCEPT ![r] = ZeroMigration]
    /\ migs' = [migs EXCEPT ![r] = <<>>]
    /\ derr' = [derr EXCEPT ![r] = "none"]
    /\ idx' = [idx EXCEPT ![r] = 0]
    /\ status' = [status EXCEPT ![r] = NoStatus]
    /\ err' = [err EXCEPT ![r] = "none"]
    /\ trace' = [trace EXCEPT ![r] = <<>>]
    /\ streak' = [streak EXCEPT ![r] = "none"]
    /\ repeat' = [repeat EXCEPT ![r] = "no"]
    /\ UNCHANGED <<rows, fs, executed, db, active, notFound, inserts, edits>>

NobodyRuns == \A r \in active : pc[r] \notin RunPcs

\* A migration file is added to the directory.  (A change of the directory
\* while a runner is inside RunMigrations is the same change made just before
\* or just after: RunMigrations works on the migrations it was given.)
AddFile(p) ==
    /\ edits < MaxFsEdits
    /\ NobodyRuns
    /\ p \in FileUniverse \ DOMAIN fs
    /\ fs' = [q \in DOMAIN fs \cup {p} |-> IF q = p THEN "A" ELSE fs[q]]
    /\ edits' = edits + 1
    /\ streak' = [r \in Runners |-> "none"]
    /\ UNCHANGED <<rows, executed, db, active, pc, cur, migs, derr, idx, status, err, trace,
                   repeat, crashedAt, notFound, inserts>>

\* A file of the directory is given other content.
EditFile(p) ==
    /\ edits < MaxFsEdits
    /\ NobodyRuns
    /\ p \in DOMAIN fs
    /\ fs' = [fs EXCEPT ![p] = IF @ = "A" THEN "B" ELSE "A"]
    /\ edits' = edits + 1
    /\ streak' = [r \in Runners |-> "none"]
    /\ UNCHANGED <<rows, executed, db, active, pc, cur, migs, derr, idx, status, err, trace,
                   repeat, crashedAt, notFound, inserts>>

\* An operator resolves a failed migration by hand and sets complete = true,
\* while no runner is inside RunMigrations.
ManualFix ==
    /\ NobodyRuns
    /\ \E i \in DOMAIN rows : ~rows[i].complete
    /\ rows' = [i \in DOMAIN rows |-> [rows[i] EXCEPT !.complete = TRUE]]
    /\ streak' = [r \in Runners |-> "none"]
    /\ UNCHANGED <<fs, executed, db, active, pc, cur, migs, derr, idx, status, err, trace,
                   repeat, crashedAt, notFound, inserts, edits>>

(***************************************************************************)
(* Specifications.                                                         *)
(***************************************************************************)
RunnerStep(r) ==
    \/ Dial(r)
    \/ DialInsert(r)
    \/ GetCurrent(r)
    \/ Diff(r)
    \/ RunStart(r)
    \/ RunSkip(r)
    \/ BeginStepOk(r)
    \/ BeginStepFail(r)
    \/ ExecFileStart(r)
    \/ ExecFileCommit(r)
    \/ ExecFileFail(r)
    \/ CompleteStepOk(r)
    \/ CompleteStepFail(r)
    \/ RunReturn(r)

Next ==
    \/ \E r \in Runners : RunnerStep(r)
    \/ \E r \in Runners : Crash(r)
    \/ \E p \in FileUniverse : AddFile(p)
    \/ \E p \in FileUniverse : EditFile(p)
    \/ ManualFix

\* One runner process, a directory that changes, crashes and repairs by hand.
Spec == Init /\ [][Next]_vars

\* Two runner processes against one database and one unchanging directory.
InitRace == InitWith({Dir({P1, P2})}, {1, 2})

NextRace == \E r \in Runners : RunnerStep(r)

SpecRace == InitRace /\ [][NextRace]_vars

\* One runner process and directories that hold a file in a subdirectory, a
\* file with a negative stem or a file that is not .sql.
InitDisc == InitWith(DiscDirs, {1})

SpecDisc == InitDisc /\ [][Next]_vars

(***************************************************************************)
(* Properties.                                                             *)
(***************************************************************************)
\* The one row of the table, in the specifications with one runner.
TheRow == rows[1]

\* How many of the first n migrations of s satisfy Complete = c.
CountComplete(s, n, c) == Cardinality({i \in 1..n : s[i].Complete = c})

\* C1: RunMigrations is fail-fast.  In the steps an invocation has performed
\* (BeginStep, SQL execution, CompleteStep, in order), a step that returned an
\* error is the last one: the invocation has returned, with that error, and
\* no step was performed for a later migration.
C1_FailFast ==
    \A r \in Runners : \A i \in 1..Len(trace[r]) :
        ~trace[r][i].ok =>
            /\ i = Len(trace[r])
            /\ pc[r] = "returned"
            /\ err[r] = trace[r][i].op
            /\ trace[r][i].i = idx[r]
            /\ \A j \in 1..Len(trace[r]) : trace[r][j].i <= idx[r]

\* A run whose second pending migration failed in its SQL while a third was
\* still pending.
C1_Witness ==
    \E r \in Runners :
        /\ pc[r] = "returned"
        /\ err[r] = "sql"
        /\ idx[r] < Len(migs[r])
        /\ ~migs[r][idx[r] + 1].Complete
        /\ status[r].Applied = 1

\* C2: when the SQL of pending migration m fails (its BeginStep committed),
\* RunMigrations returns with the row at {m.Version, m.Hash, m.File, false},
\* Failed = 1, Applied = the pending migrations sorted before m and Skipped =
\* the complete migrations sorted before m.
C2_SqlFailureLeavesMarker ==
    [][\A r \in Runners :
         (pc[r] = "intx" /\ pc'[r] = "returned") =>
            /\ err'[r] = "sql"
            /\ rows' = <<Row(Current(r).Version, Current(r).Hash, Current(r).File, FALSE)>>
            /\ status'[r].Failed = 1
            /\ status'[r].Applied = CountComplete(migs[r], idx[r] - 1, FALSE)
            /\ status'[r].Skipped = CountComplete(migs[r], idx[r] - 1, TRUE)
            /\ migs'[r] = migs[r] /\ idx'[r] = idx[r]]_vars

\* Three pending migrations, the second failed in its SQL: Applied = 1,
\* Failed = 1, Skipped = 0 and the row is left incomplete at the second version.
C2_Witness ==
    \E r \in Runners :
        /\ pc[r] = "returned"
        /\ err[r] = "sql"
        /\ Len(migs[r]) = 3
        /\ idx[r] = 2
        /\ status[r] = MigrationStatus(1, 1, 0, 1)
        /\ rows = <<Row(2, "hA", P2, FALSE)>>

UniqueVersions(s) ==
    \A i, j \in 1..Len(s) : s[i].Version = s[j].Version => i = j

MaxVersion(s) == CHOOSE v \in {s[i].Version : i \in 1..Len(s)} :
                    \A i \in 1..Len(s) : s[i].Version <= v

\* C3: with one runner, candidates of unique versions and a persisted
\* {Version = v, Complete = true}, a DiffMigrations and RunMigrations that
\* meet no failure return Applied = the candidates above v, Skipped = the
\* candidates up to v, Failed = 0 and Latest = the highest candidate version
\* (v when nothing was pending), and the row ends at {Latest, Complete = true}.
C3_EndToEnd ==
    \A r \in Runners :
        (pc[r] = "returned" /\ err[r] = "none" /\ UniqueVersions(migs[r])) =>
            LET s == migs[r]
                v == cur[r].version
                above == {i \in 1..Len(s) : s[i].Version > v}
            IN  /\ status[r].Applied = Cardinality(above)
                /\ status[r].Skipped = Len(s) - Cardinality(above)
                /\ status[r].Failed = 0
                /\ status[r].Latest = IF above = {} THEN v ELSE MaxVersion(s)
                /\ Len(rows) = 1
                /\ TheRow.version = status[r].Latest
                /\ TheRow.complete

\* 1.sql, 2.sql and 3.sql against a persisted Version = 1: the run returns
\* {Applied: 2, Skipped: 1, Failed: 0, Latest: 3} and the row is {3, true}.
C3_Witness ==
    \E r \in Runners :
        /\ pc[r] = "returned"
        /\ err[r] = "none"
        /\ cur[r].version = 1
        /\ [i \in 1..Len(migs[r]) |-> migs[r][i].File] = <<P1, P2, P3>>
        /\ status[r] = MigrationStatus(2, 0, 1, 3)
        /\ TheRow.version = 3 /\ TheRow.complete

\* C4 as stated: a run that follows another run of the same runner, with no
\* change of the directory in between, reports Applied = 0 and Skipped = the
\* number of migrations passed to it, and performs no step.
C4_SecondRunSkipsAll ==
    \A r \in Runners :
        (pc[r] = "returned" /\ repeat[r] # "no") =>
            /\ status[r].Applied = 0
            /\ status[r].Skipped = Len(migs[r])
            /\ trace[r] = <<>>

\* C4, amended: a run that follows a run that returned without error, with
\* no change of the directory since that run's DiffMigrations, performs no
\* step (no write to the row, no execution of SQL), leaves the row as the
\* caller read it, and returns Applied = 0, Failed = 0 and Skipped = the
\* number of migrations passed to it.
C4_SecondRunAfterSuccess ==
    \A r \in Runners :
        (repeat[r] = "afterok" /\ pc[r] \in RunPcs \cup {"returned"}) =>
            /\ pc[r] \in {"loop", "returned"}
            /\ trace[r] = <<>>
            /\ rows = <<cur[r]>>
            /\ status[r].Applied = 0
            /\ status[r].Failed = 0
            /\ \A i \in 1..Len(migs[r]) : migs[r][i].Complete
            /\ pc[r] = "returned" =>
                  (err[r] = "none" /\ status[r].Skipped = Len(migs[r]))

\* The second of two runs over 1.sql, 2.sql, 3.sql has returned.
C4_Witness ==
    \E r \in Runners :
        /\ pc[r] = "returned"
        /\ repeat[r] = "afterok"
        /\ Len(migs[r]) = 3
        /\ status[r] = MigrationStatus(0, 0, 3, 3)

\* The step of runner r that is a call of DiffMigrations.
DiffStep(r) == pc[r] = "got" /\ pc'[r] \in {"diffed", "idle"}

Parsed(p) == ParseInt(StripSql(p.name))

\* The .sql files of directory d whose name is a number.
Candidates(d) == {p \in DOMAIN d : Ext(p.name) = DotSql /\ Parsed(p).ok}

\* The candidates at the persisted version whose hash is not the persisted one.
DriftedFiles(row, d) ==
    {p \in Candidates(d) :
        Uint64(Parsed(p).val) = row.version /\ Md5Hex(d[p]) # row.hash}

\* A .sql file the walk meets before p and cannot parse.
BadBefore(d, p) ==
    \E q \in DOMAIN d : WalkLess(q, p) /\ Ext(q.name) = DotSql /\ ~Parsed(q).ok

\* C5 as stated: whenever the directory holds a candidate at the persisted
\* version with another hash, DiffMigrations returns the drift error and
\* leaves the row unchanged.
C5_DriftErrorAlways ==
    [][\A r \in Runners :
         (DiffStep(r) /\ rows # <<>> /\ DriftedFiles(TheRow, fs) # {}) =>
            (derr'[r] = "drift" /\ rows' = rows)]_vars

\* C5, amended: in that case DiffMigrations never succeeds and leaves the
\* row unchanged; its error is the drift error, unless the row is incomplete
\* (the error is then the unresolved-failed-migration error) or the walk met
\* an unparseable .sql file name before the drifted candidate (a parse error).
C5_DriftNeverAccepted ==
    [][\A r \in Runners :
         (DiffStep(r) /\ rows # <<>> /\ DriftedFiles(TheRow, fs) # {}) =>
            /\ pc'[r] = "idle"
            /\ derr'[r] \in {"drift", "unresolved", "parse"}
            /\ derr'[r] = "unresolved" <=> ~TheRow.complete
            /\ (TheRow.complete /\ \E p \in DriftedFiles(TheRow, fs) : ~BadBefore(fs, p))
                  => derr'[r] = "drift"
            /\ rows' = rows]_vars

\* DiffMigrations has returned the drift error against a complete row.
C5_Witness ==
    \E r \in Runners :
        /\ derr[r] = "drift"
        /\ pc[r] = "idle"
        /\ TheRow.complete
        /\ DriftedFiles(TheRow, fs) # {}

\* C6: while the row has complete = false, every DiffMigrations fails with
\* the unresolved-failed-migration error, returns no migrations and leaves
\* the row as it is; and once the run that left it so has ended, a step that
\* changes the row is no step of Dial, GetCurrentMigration or DiffMigrations
\* (it changes nothing of any runner: the correction by hand).
C6_UnresolvedBlocksDiff ==
    [][/\ \A r \in Runners :
            (DiffStep(r) /\ rows # <<>> /\ ~TheRow.complete) =>
               /\ derr'[r] = "unresolved"
               /\ migs'[r] = <<>>
               /\ pc'[r] = "idle"
               /\ rows' = rows
       /\ (rows # <<>> /\ ~TheRow.complete /\ NobodyRuns /\ rows' # rows) =>
             /\ UNCHANGED <<pc, cur, migs, derr, idx, status, err, trace, notFound, inserts>>
             /\ rows' = <<[TheRow EXCEPT !.complete = TRUE]>>]_vars

\* A failed run left the row incomplete at version 2 and a DiffMigrations
\* after it has refused to proceed.
C6_Witness ==
    \E r \in Runners :
        /\ derr[r] = "unresolved"
        /\ pc[r] = "idle"
        /\ crashedAt[r] = "none"
        /\ ~TheRow.complete
        /\ TheRow.version = 2

\* C7: from the commit of m's BeginStep to the commit of m's CompleteStep
\* the row is {m.Version, m.Hash, m.File, complete = false}: it is so before
\* m's SQL starts, while it executes and after it, and a crash of the runner
\* there leaves it so.
C7_MarkerBeforeSql ==
    [][\A r \in Runners :
         pc[r] \in {"exec", "intx", "complete"} =>
            /\ rows = <<Row(Current(r).Version, Current(r).Hash, Current(r).File, FALSE)>>
            /\ pc'[r] = "new" => rows' = rows]_vars

\* The runner crashed inside the SQL of 2.sql, and the row says so.
C7_Witness ==
    \E r \in Runners :
        /\ pc[r] = "new"
        /\ crashedAt[r] = "intx"
        /\ rows = <<Row(2, "hA", P2, FALSE)>>

\* C8: if the row has moved to another Version when runner r's CompleteStep
\* runs, that CompleteStep sets complete = true on no row and r's
\* RunMigrations returns an error for the migration instead of counting it
\* as Applied.
C8_LoserDetectsMovedRow ==
    [][\A r \in Runners :
         (/\ pc[r] = "complete"
          /\ pc'[r] \in {"loop", "returned"}
          /\ \A i \in DOMAIN rows : rows[i].version # Current(r).Version) =>
            /\ rows' = rows
            /\ pc'[r] = "returned"
            /\ err'[r] # "none"
            /\ status'[r].Applied = status[r].Applied]_vars

\* C9: on a fresh database GetCurrentMigration returns sql.ErrNoRows exactly
\* once, inside the first Dial, which inserts {Version = 0, Complete = true};
\* after that, whatever Dial, DiffMigrations and RunMigrations calls follow,
\* it never does again, and no second row is inserted (nor the row deleted).
C9_BootstrapOnce ==
    /\ notFound = IF rows = <<>> /\ \A r \in Runners : pc[r] = "new" THEN 0 ELSE 1
    /\ inserts = Len(rows)
    /\ inserts <= 1
    /\ \A r \in Runners : pc[r] \notin {"new", "dialing"} => rows # <<>>
    /\ (rows # <<>> /\ TheRow.version = 0) => TheRow = BootstrapRow

\* A later Dial, after migrations have run, found the row.
C9_Witness ==
    \E r \in Runners :
        /\ pc[r] = "idle"
        /\ derr[r] = "none"
        /\ TheRow.version = 3
        /\ notFound = 1
        /\ inserts = 1

\* C10: for a migration of RunMigrations' input that is already complete
\* the runner writes nothing to the row and executes no SQL; it increments
\* Skipped and moves on, with Applied, Failed and Latest unchanged.
C10_SkipHasNoEffect ==
    [][\A r \in Runners :
         (InLoop(r) /\ Current(r).Complete /\ pc'[r] # "new") =>
            /\ rows' = rows
            /\ executed' = executed
            /\ trace'[r] = trace[r]
            /\ status'[r] = [status[r] EXCEPT !.Skipped = @ + 1]
            /\ idx'[r] = idx[r] + 1
            /\ pc'[r] = "loop"]_vars

\* A run that skipped one complete migration and applied two pending ones.
C10_Witness ==
    \E r \in Runners :
        /\ pc[r] = "returned"
        /\ status[r].Skipped = 1
        /\ status[r].Applied = 2
        /\ Len(trace[r]) = 6
        /\ \A i \in 1..Len(trace[r]) : ~migs[r][trace[r][i].i].Complete

\* C11: when DiffMigrations succeeds against a row {Version = v, Complete =
\* true}, every candidate it returns has Complete = TRUE exactly when its
\* Version <= v (and so Complete = FALSE exactly when its Version > v).
C11_CompleteIffNotAbove ==
    [][\A r \in Runners :
         (DiffStep(r) /\ derr'[r] = "none") =>
            /\ TheRow.complete
            /\ \A i \in 1..Len(migs'[r]) :
                 /\ migs'[r][i].Complete = TRUE <=> migs'[r][i].Version <= TheRow.version
                 /\ migs'[r][i].Complete = FALSE <=> migs'[r][i].Version > TheRow.version]_vars

\* A successful DiffMigrations against a row at version 2 that returned a
\* candidate below, one at, and one above that version.
C11_Witness ==
    \E r \in Runners :
        /\ pc[r] = "diffed"
        /\ rows = <<Row(2, "hA", P2, TRUE)>>
        /\ Len(migs[r]) = 3
        /\ migs[r][1].Version = 1 /\ migs[r][1].Complete
        /\ migs[r][2].Version = 2 /\ migs[r][2].Complete
        /\ migs[r][3].Version = 3 /\ ~migs[r][3].Complete

\* C12: the slice a successful DiffMigrations returns holds at most one
\* Migration per Version: two files whose names parse to the same number
\* (1.sql and 01.sql) are never both in it.
C12_OnePerVersion ==
    \A r \in Runners : pc[r] = "diffed" => UniqueVersions(migs[r])

\* The statements of a file, in file order, written out for each content.
StatementsOf(file, content) ==
    CASE content = "A" -> <<Statement(file, <<"a">>), Statement(file, <<"b">>)>>
      [] content = "B" -> <<Statement(file, <<"c">>), Statement(file, <<>>)>>

\* C13: the SQL of a pending migration is applied as an atomic unit.  When
\* ExecFile returns an error (a statement or the commit failed) the database
\* holds none of the file's statements that it did not hold before; when it
\* returns no error all of the file's statements took effect, in file order.
C13_ExecFileAtomic ==
    [][\A r \in Runners :
         /\ (pc[r] = "intx" /\ pc'[r] = "returned") =>
               /\ err'[r] = "sql"
               /\ db' = db
               /\ executed' = executed
         /\ (pc[r] = "intx" /\ pc'[r] = "complete") =>
               /\ err'[r] = "none"
               /\ db' = db \o StatementsOf(Current(r).File, fs[Current(r).File])
               /\ executed' = [executed EXCEPT ![Current(r).File] = @ + 1]]_vars

\* The first file committed both of its statements and the second file's
\* ExecFile then failed: the database holds the first file's statements only.
C13_Witness ==
    \E r \in Runners :
        /\ pc[r] = "returned"
        /\ err[r] = "sql"
        /\ idx[r] = 2
        /\ db = StatementsOf(P1, "A")
        /\ fs[P2] = "A"

\* The positions in migs[r] of the migrations whose CompleteStep succeeded in
\* the current invocation.
AppliedAt(r) ==
    {trace[r][k].i : k \in {k \in 1..Len(trace[r]) :
                              trace[r][k].op = "complete" /\ trace[r][k].ok}}

\* C14: at every return of RunMigrations, Failed <= 1 and Applied + Skipped +
\* Failed <= the number of migrations passed in; an error is returned exactly
\* when Failed = 1, and the status then still carries the Applied and Skipped
\* counts reached before the failure; Latest is the version of the last
\* migration whose three steps all succeeded, or the starting version when
\* there is none; with no error Applied + Skipped = the number passed in.
C14_StatusAtReturn ==
    \A r \in Runners : pc[r] = "returned" =>
        LET st == status[r]
            n  == Len(migs[r])
            reached == IF err[r] = "none" THEN n ELSE idx[r] - 1
        IN  /\ st.Failed <= 1
            /\ st.Applied + st.Skipped + st.Failed <= n
            /\ err[r] # "none" <=> st.Failed = 1
            /\ st.Applied = CountComplete(migs[r], reached, FALSE)
            /\ st.Skipped = CountComplete(migs[r], reached, TRUE)
            /\ st.Applied = Cardinality(AppliedAt(r))
            /\ st.Latest = IF AppliedAt(r) = {} THEN cur[r].version
                           ELSE migs[r][CHOOSE i \in AppliedAt(r) :
                                           \A j \in AppliedAt(r) : j <= i].Version
            /\ err[r] = "none" => st.Applied + st.Skipped = n

\* A run over three migrations that skipped the first, applied the second and
\* failed on the third.
C14_Witness ==
    \E r \in Runners :
        /\ pc[r] = "returned"
        /\ err[r] # "none"
        /\ Len(migs[r]) = 3
        /\ status[r] = MigrationStatus(1, 1, 1, 2)
        /\ cur[r].version = 1

\* The orders in which a caller can pass the migrations of s.
InputOrders(s) ==
    { [i \in 1..Len(s) |-> s[f[i]]] : f \in Permutations(1..Len(s)) }

StrictlyAscending(s) ==
    \A i, j \in 1..Len(s) : i < j => s[i].Version < s[j].Version

\* C15: for any input order of the migrations passed to RunMigrations the
\* runner processes them in strictly ascending Version, so that every
\* permutation of the same input set is processed as one and the same
\* sequence (and so ends in the same status and the same persisted row).
C15_OrderIndependent ==
    \A r \in Runners :
        /\ pc[r] = "diffed" =>
              \A a, b \in InputOrders(migs[r]) :
                  \A x \in SortResults(a) : \A y \in SortResults(b) :
                      x = y /\ StrictlyAscending(x)
        /\ pc[r] \in RunPcs => StrictlyAscending(migs[r])

\* C16: Discovery produces a candidate for exactly the files directly inside
\* the migration directory that have the extension .sql: when DiffMigrations
\* succeeds, a file inside a subdirectory and a file with another extension
\* have produced no candidate.
C16_TopLevelSqlOnly ==
    [][\A r \in Runners :
         (DiffStep(r) /\ derr'[r] = "none") =>
            {migs'[r][i].File : i \in 1..Len(migs'[r])}
                = {p \in DOMAIN fs : p.dir = <<>> /\ Ext(p.name) = DotSql}]_vars

\* The stem of a file name: the name without its extension.
Stem(name) == SubSeq(name, 1, Len(name) - Len(Ext(name)))

\* A base-10 unsigned integer: one or more decimal digits and nothing else.
IsUnsigned(s) == s # <<>> /\ \A i \in 1..Len(s) : IsDigit(s[i])

\* C17: for every .sql file DiffMigrations considers, either the stem is a
\* base-10 unsigned integer and the candidate's Version equals that integer,
\* or DiffMigrations fails with a parse error: a successful DiffMigrations
\* returns no candidate whose stem is something else (such as -1) or whose
\* Version is another number.
C17_VersionIsUnsignedStem ==
    [][\A r \in Runners :
         (DiffStep(r) /\ derr'[r] = "none") =>
            \A i \in 1..Len(migs'[r]) :
                LET stem == Stem(migs'[r][i].File.name)
                IN  /\ IsUnsigned(stem)
                    /\ migs'[r][i].Version = DigitsVal(stem, 0)]_vars

\* C18: for one process that calls RunMigrations with the migration it read
\* and the output of a successful DiffMigrations, the Version of the
\* persisted row never decreases, whatever the sequence of Dial,
\* DiffMigrations and RunMigrations calls and whether the runs succeed or fail.
C18_VersionNeverDecreases ==
    [][(rows # <<>> /\ rows' # <<>>) => rows'[1].version >= rows[1].version]_vars

\* A run that followed a failed run has brought the row to version 3.
C18_Witness ==
    \E r \in Runners :
        /\ pc[r] = "returned"
        /\ repeat[r] = "aftererr"
        /\ status[r].Applied >= 1
        /\ TheRow.version = 3

\* The version DiffMigrations gives the file p.
VersionOf(p) == Uint64(ParseInt(StripSql(p.name)).val)

\* C19: with two runner instances that each call DiffMigrations and then
\* RunMigrations concurrently, no migration's SQL is executed successfully
\* more than once in total, and whenever the row reads {Version = v, Complete
\* = true} every migration with Version <= v that was pending at the start
\* has had its SQL executed successfully and none with Version > v has.
C19_ExactlyOnceUnderRace ==
    /\ \A p \in DOMAIN fs : executed[p] <= 1
    /\ \A k \in DOMAIN rows :
          rows[k].complete =>
              \A p \in DOMAIN fs :
                  /\ VersionOf(p) <= rows[k].version => executed[p] >= 1
                  /\ VersionOf(p) > rows[k].version => executed[p] = 0

\* C20: the table holds at most one row with id '1' in every reachable
\* state, also when two Dial calls run concurrently against a fresh database.
C20_AtMostOneRow ==
    Len(rows) <= 1

====
